---- MODULE Spec2Model ----
(***************************************************************************)
(* ModifiedSpeedDial (src/modifedspeeddial.py): a speed-dial widget that   *)
(* is a child of a button.  The model follows the widget's handlers: the   *)
(* data mapping and its deferred builds, open_stack / close_stack and the  *)
(* completion callbacks of their root window animations, the window touch  *)
(* handlers, and the chained per-widget opening animations.                *)
(*                                                                         *)
(* The toolkit is single threaded: every handler runs to completion, so    *)
(* each handler is one action.  An exception that leaves a handler is not  *)
(* caught anywhere in the widget and ends the application: the state       *)
(* reached is kept (err names the exception) and nothing runs after it.    *)
(***************************************************************************)
EXTENDS Integers, Sequences, FiniteSets

(* ------------------------------ bounds -------------------------------- *)

\* Most entries the data mapping holds at a time.
MaxEntries == 2
\* Most on_data dispatches (changes of the data mapping) in one behaviour.
MaxOnData == 2
\* Most root window animations of one kind (opening, closing) in flight.
MaxPending == 1

(* ---------------------------- value sets ------------------------------ *)

\* Keys of the data mapping: the hint texts; "" is an entry without hint text.
Names == {"", "a"}

\* No touch is down.
NoTouch == [kind |-> "no touch", gen |-> 0, name |-> ""]

\* Python's None.
None == [kind |-> "None", gen |-> 0, name |-> ""]

\* The options of the state property (line 61).
States == {"close", "open"}

\* What on_parent may be called with: no parent (the widget was removed from
\* its parent), a button, and widgets lacking on_press, on_release or both.
Parents == {"none", "button", "press_only", "release_only", "plain"}

\* The three window events the touch handlers are bound to.
TouchEvents == {"on_touch_down", "on_touch_move", "on_touch_up"}

Range(s) == {s[i] : i \in 1..Len(s)}

RECURSIVE DistinctSeqs(_, _)
\* The sequences of at most n distinct elements of S: the key orders a dict holds.
DistinctSeqs(S, n) ==
    IF n = 0 THEN {<< >>}
    ELSE LET shorter == DistinctSeqs(S, n - 1)
         IN  shorter \cup
             UNION {{Append(s, x) : x \in S \ Range(s)} :
                    s \in {t \in shorter : Len(t) = n - 1}}

\* The values of the data mapping (its keys, in insertion order).
Mappings == DistinctSeqs(Names, MaxEntries)

\* The mappings the opening animations are followed for: one entry, and
\* three entries (one without hint text), whose chain of button animations
\* has a widget that is neither the first nor the last.
AnimMappings == {<<"a">>, <<"a", "", "b">>}

\* The options of stack_button_direction (line 45).
Directions == {"top", "bottom"}

\* No widget has a position: the stack is empty.
Nowhere == [w \in {} |-> 0]

(* ------------------------------ state --------------------------------- *)

VARIABLES
    parent,                 \* kind of self.parent (Parents)
    _widget_declaration_finished, \* the attribute of that name
    draw_bound,             \* Window.on_draw is bound to _update_pos_buttons
    releaseBound,           \* open_stack is bound to the parent's on_release
    data,                   \* the data mapping: its keys in order
    ndata,                  \* on_data dispatches so far
    scheduled,              \* Clock.schedule_once(on_data) closures not yet run
    _buttons,               \* self._buttons
    _labels,                \* self._labels
    _local_positions,       \* self._local_positions
    center_y,               \* each stack widget's center_y less the parent's
    _anim_buttons_data,     \* keys of self._anim_buttons_data, in order
    _anim_labels_data,      \* keys of self._anim_labels_data, in order
    _window,                \* self._window: "None" or "Window"
    _touch_started_inside,  \* "None", "True" or "False"
    state,                  \* the state property
    disabled,               \* the disabled property
    auto_dismiss,           \* the auto_dismiss property
    hovering,               \* the stack button under the mouse cursor, or None
    hints,                  \* running hover animations: [w |-> widget, to |-> target]
    stack_button_direction, \* the property of that name
    hint_animation,         \* the hint_animation property
    children,               \* stack widgets that are children of the window
    bound,                  \* window touch events the handlers are bound to
    opening,                \* opening root animations whose on_complete is due
    closing,                \* closing root animations whose on_complete is due
    running,                \* widgets whose cached opening animation is running
    chains,                 \* live iterators of do_animation_open_stack
    progressed,             \* widgets whose opening animation has reached 10%
    opened,                 \* opens so far: "never", "once" or "again"
    touch,                  \* where the latest touch went down (NoTouch: lifted)
    touches,                \* what the touches still down hit when they went down
    call,                   \* the last handler (of those read) and its calls
    err                     \* the exception that ended the application

vars == <<parent, _widget_declaration_finished, draw_bound, releaseBound,
          data, ndata, scheduled, _buttons, _labels, _local_positions,
          center_y, _anim_buttons_data, _anim_labels_data, _window,
          _touch_started_inside, state, disabled, auto_dismiss, hovering,
          hints, stack_button_direction, hint_animation, children, bound,
          opening, closing, running, chains, progressed, opened, touch,
          touches, call, err>>

\* The class attributes (lines 35-76, with the properties at their defaults)
\* and __init__ (lines 78-90).
Init ==
    /\ parent = "none"
    /\ _widget_declaration_finished = FALSE
    /\ draw_bound = FALSE
    /\ releaseBound = FALSE
    /\ data = << >>
    /\ ndata = 0
    /\ scheduled = << >>
    /\ _buttons = << >>
    /\ _labels = << >>
    /\ _local_positions = << >>
    /\ center_y = Nowhere
    /\ _anim_buttons_data = << >>
    /\ _anim_labels_data = << >>
    /\ _window = "None"
    /\ _touch_started_inside = "None"
    /\ state = "close"
    /\ disabled = TRUE
    /\ auto_dismiss = TRUE
    /\ hovering = None
    /\ hints = {}
    /\ stack_button_direction = "top"
    /\ hint_animation = FALSE
    /\ children = {}
    /\ bound = {}
    /\ opening = 0
    /\ closing = 0
    /\ running = {}
    /\ chains = {}
    /\ progressed = {}
    /\ opened = "never"
    /\ touch = NoTouch
    /\ touches = {}
    /\ call = << >>
    /\ err = "none"

(* ----------------------------- helpers -------------------------------- *)

\* hasattr(instance_parent, attr) for the parents of Parents.
HasAttr(p, attr) ==
    \/ p = "button"
    \/ p = "press_only" /\ attr = "on_press"
    \/ p = "release_only" /\ attr = "on_release"

\* MDFloatingBottomButton(...) of the build that closure gen runs.
NewButton(gen, name) == [kind |-> "button", gen |-> gen, name |-> name]

\* A build that makes a label for every entry, with or without hint text.
NewLabelAlways(gen, name) == [kind |-> "label", gen |-> gen, name |-> name]

\* The label of an entry: an MDFloatingLabel if the hint text is not empty.
NewLabel(gen, name) ==
    IF name # "" THEN [kind |-> "label", gen |-> gen, name |-> name] ELSE None

\* isinstance(w, MDFloatingBottomButton), isinstance(w, MDFloatingLabel).
IsButton(w) == w.kind = "button"
IsLabel(w) == w.kind = "label"

\* The buttons of bs and the labels of ls.
WidgetsOf(bs, ls) ==
    {w \in Range(bs) : IsButton(w)} \cup {w \in Range(ls) : IsLabel(w)}

\* The widgets add_widgets and remove_widgets walk over.
StackWidgets ==
    {w \in Range(_buttons) : IsButton(w)} \cup {w \in Range(_labels) : IsLabel(w)}

\* seq.index(w)
Index(seq, w) == CHOOSE i \in 1..Len(seq) : seq[i] = w

\* self._direction_vals[direction], line 66.
_direction_vals(direction) == IF direction \in {"right", "top"} THEN 1 ELSE -1

\* dp(30) and dp(56) of lines 285 and 293, with dp(x) = x.
FirstOffset == 30
ButtonOffset == 56

\* y of open_stack when the loop of lines 290-309 has reached button i
\* (1-based): 30 and then 56 more for every button, signed by the direction.
OpenOffset(i) ==
    (FirstOffset + ButtonOffset * i) * _direction_vals(stack_button_direction)

\* The positions after the loop of lines 290-309: every button has moved by
\* its y (button.center_y += y) and its label is put where it is.
Opened(cy) ==
    [w \in DOMAIN cy |->
        IF IsButton(w)
        THEN cy[w] + OpenOffset(Index(_buttons, w))
        ELSE cy[_buttons[Index(_labels, w)]] + OpenOffset(Index(_labels, w))]

\* The positions the closing animations of the buttons (lines 365-372,
\* center_y=self.parent.center_y) leave: they take closing_time, less than
\* the closing root animation, and are taken to have ended before the next
\* handler runs.  The labels are only faded.
Closed(cy) == [w \in DOMAIN cy |-> IF IsButton(w) THEN 0 ELSE cy[w]]

\* _update_pos_buttons, lines 405-411, as far as center_y goes: every button
\* and label at the parent's center_y plus its entry of _local_positions.
Repositioned(cy) ==
    [w \in DOMAIN cy |->
        IF IsButton(w) THEN _local_positions[Index(_buttons, w)]
        ELSE _local_positions[Index(_labels, w)]]

\* A remove_widgets that leaves the window's children where they are.
remove_widgets_nothing(ch) == ch

\* remove_widgets: the window's children after it (remove_widget does nothing
\* while self._window is None).
remove_widgets(ch) == IF _window = "None" THEN ch ELSE ch \ StackWidgets

\* add_widgets, called with self._window set: a widget without a parent is
\* added to the window.
add_widgets(ch) == ch \cup StackWidgets

\* The handler that ran last, followed by what it called or dispatched.
Called(op, calls) == <<op>> \o calls

\* What is kept of a handler whose calls no property reads.
Quiet == << >>

(* ------------------------------ on_parent ----------------------------- *)

\* on_parent(self, instance_parent): the parent property has changed to p.
on_parent(p) ==
    /\ err = "none"
    /\ p # parent
    /\ parent' = p
    /\ IF HasAttr(p, "on_release") /\ HasAttr(p, "on_press")
       THEN /\ releaseBound' = TRUE
            /\ err' = err
            /\ call' = Quiet
       ELSE /\ releaseBound' = releaseBound
            /\ err' = "ValueError"
            /\ call' = Quiet
    /\ UNCHANGED <<_widget_declaration_finished, draw_bound, data, ndata,
                   scheduled, _buttons, _labels, _local_positions, center_y,
                   _anim_buttons_data, _anim_labels_data, _window,
                   _touch_started_inside, touch, touches, state, disabled,
                   auto_dismiss, hovering, hints, stack_button_direction,
                   hint_animation, children, bound, opening, closing, running,
                   chains, progressed, opened>>

(* ------------------------- data and its builds ------------------------ *)

\* A scheduled closure reads its data argument when it runs: the mapping
\* object it was dispatched with.  live: that object is still self.data (an
\* in-place change is seen); otherwise snap holds the replaced object's keys.
Closure(gen) == [gen |-> gen, live |-> TRUE, snap |-> << >>]

\* Assigning a new mapping leaves the closures of the old object with its keys.
Freeze(cs) ==
    [i \in 1..Len(cs) |->
        IF cs[i].live THEN [cs[i] EXCEPT !.live = FALSE, !.snap = data] ELSE cs[i]]

\* The Window.remove_widget calls that took a child out of the window.
Removed(before, after) ==
    [i \in 1..Cardinality(before \ after) |-> "remove_widget"]

\* on_data(self, instance, data), lines 194-200, with self.data now newData.
\* The widgets dropped from the lists are no longer reachable from the
\* widget: their opening animations and chains, which act on them alone, are
\* not followed further.
on_data(newData, cs) ==
    /\ err = "none"
    /\ ndata < MaxOnData
    /\ data' = newData
    /\ ndata' = ndata + 1
    /\ children' = remove_widgets(children)
    /\ _buttons' = << >>
    /\ _labels' = << >>
    /\ _local_positions' = << >>
    /\ center_y' = Nowhere
    /\ _anim_buttons_data' = << >>
    /\ _anim_labels_data' = << >>
    /\ scheduled' = Append(cs, Closure(ndata + 1))
    /\ running' = {}
    /\ chains' = {}
    /\ progressed' = {}
    /\ hints' = {}
    /\ hovering' = None
    /\ call' = Called("on_data", Removed(children, remove_widgets(children)))
    /\ UNCHANGED <<parent, _widget_declaration_finished, draw_bound,
                   releaseBound, _window, _touch_started_inside, touch,
                   touches, state, disabled, auto_dismiss, hovering, hints,
                   stack_button_direction, hint_animation, bound, opening,
                   closing, opened, err>>

\* self.data = d: a new mapping object (the property dispatches on a change).
SetData(d) == d # data /\ on_data(d, Freeze(scheduled))

\* self.data[k] = ...: an in-place change, dispatched with the same object.
SetItem(k) ==
    /\ k \in Range(data) \/ Len(data) < MaxEntries
    /\ on_data(IF k \in Range(data) THEN data ELSE Append(data, k), scheduled)

\* del self.data[k]
DelItem(k) ==
    /\ k \in Range(data)
    /\ on_data(SelectSeq(data, LAMBDA x : x # k), scheduled)

\* The keys closure c iterates over when it runs.
Content(c) == IF c.live THEN data ELSE c.snap

\* The deferred on_data(*args) of lines 147-192 run on the lists st: one
\* button, label and local position per entry.  set_pos_bottom_buttons reads
\* self.parent.center_y (line 239), which raises without a parent, after the
\* first entry has been appended.  The closure binds on_draw first (d, line
\* 149); set_pos_labels, called for the first label, unbinds it again if
\* _widget_declaration_finished (f) is still set from an earlier build
\* (lines 207-209); the else of the loop sets it (line 192).
BuildStep(st, c) ==
    LET keys == Content(c)
        labelled == \E i \in 1..Len(keys) : keys[i] # ""
    IN  IF st.e # "none" THEN st
        ELSE IF keys = << >> THEN [st EXCEPT !.d = TRUE, !.f = TRUE]
        ELSE IF parent = "none"
        THEN [b |-> Append(st.b, NewButton(c.gen, keys[1])),
              l |-> Append(st.l, NewLabel(c.gen, keys[1])),
              p |-> Append(st.p, 0),
              d |-> TRUE,
              f |-> st.f,
              e |-> "AttributeError"]
        ELSE [b |-> st.b \o [i \in 1..Len(keys) |-> NewButton(c.gen, keys[i])],
              l |-> st.l \o [i \in 1..Len(keys) |-> NewLabel(c.gen, keys[i])],
              p |-> st.p \o [i \in 1..Len(keys) |-> 0],
              d |-> ~(labelled /\ st.f),
              f |-> TRUE,
              e |-> "none"]

RECURSIVE RunBuilds(_, _)
\* The scheduled closures cs run in the order they were scheduled.
RunBuilds(cs, st) ==
    IF cs = << >> THEN st ELSE RunBuilds(Tail(cs), BuildStep(st, Head(cs)))

\* The next clock frame: every closure scheduled by on_data runs.
Tick ==
    /\ err = "none"
    /\ scheduled # << >>
    /\ LET st == RunBuilds(scheduled, [b |-> _buttons, l |-> _labels,
                                       p |-> _local_positions,
                                       d |-> draw_bound,
                                       f |-> _widget_declaration_finished,
                                       e |-> "none"])
       IN  /\ draw_bound' = st.d
           /\ _widget_declaration_finished' = st.f
           /\ _buttons' = st.b
           /\ _labels' = st.l
           /\ _local_positions' = st.p
           /\ center_y' = [w \in WidgetsOf(st.b, st.l) |->
                              IF w \in DOMAIN center_y THEN center_y[w] ELSE 0]
           /\ err' = st.e
    /\ scheduled' = << >>
    /\ call' = Quiet
    /\ UNCHANGED <<parent, releaseBound, data, ndata, _anim_buttons_data,
                   _anim_labels_data, _window, _touch_started_inside, touch,
                   touches, state, disabled, auto_dismiss, hovering, hints,
                   stack_button_direction, hint_animation, children, bound,
                   opening, closing, running, chains, progressed, opened>>

(* ------------------------- opening and closing ------------------------ *)

\* Animation.cancel_all(label) for every label of the stack (lines 280-282).
CancelledLabels == {w \in Range(_labels) : IsLabel(w)}
CancelLabels(run) == run \ CancelledLabels

\* The chain do_animation_open_stack leaves behind for anim_data's keys: its
\* iterator has handed out the first pos keys.  An exhausted iterator does
\* nothing more and is not kept.
Chain(keys) == IF Len(keys) > 1 THEN {[keys |-> keys, pos |-> 1]} ELSE {}

\* What animation_open_stack() starts first (line 355).
First(keys) == IF keys # << >> THEN {keys[1]} ELSE {}

\* A close_stack that leaves the widget enabled.
close_stack_stays_enabled ==
    /\ closing < MaxPending
    /\ closing' = closing + 1
    /\ center_y' = Closed(center_y)
    /\ disabled' = FALSE
    /\ state' = "close"

\* A close_stack that does not set state.
close_stack_keeps_state ==
    /\ closing < MaxPending
    /\ closing' = closing + 1
    /\ center_y' = Closed(center_y)
    /\ disabled' = TRUE
    /\ state' = state

\* close_stack, lines 357-379: the closing root animation is started with
\* close_binding as its on_complete, then disabled, state and on_close.
close_stack ==
    /\ closing < MaxPending
    /\ closing' = closing + 1
    /\ center_y' = Closed(center_y)
    /\ disabled' = TRUE
    /\ state' = "close"

\* open_stack while state is not open, lines 285-320.  Both
\* do_animation_open_stack calls start a root animation of duration
\* opening_time on the window (on_start: add_widgets, on_complete:
\* open_binding); the two complete in the same frame and count as one in
\* opening.
OpenTheStack ==
    LET cancelled == CancelLabels(running)
        raises == _local_positions = << >> /\ _buttons # << >>
        nb == IF _anim_buttons_data = << >> THEN _buttons ELSE << >>
        nl == IF _anim_labels_data = << >>
              THEN SelectSeq(_labels, IsLabel) ELSE << >>
        ab == IF nb # << >> THEN nb ELSE _anim_buttons_data
        al == IF nl # << >> /\ ~hint_animation THEN nl ELSE _anim_labels_data
    IN  /\ state # "open"
        /\ opening < MaxPending
        /\ _window' = "Window"
        /\ IF raises
           THEN \* self._local_positions[i] = y on an empty list (line 295)
                /\ err' = "IndexError"
                /\ running' = cancelled
                /\ progressed' = CancelLabels(progressed)
                /\ call' = Called("open_stack", << >>)
                /\ UNCHANGED <<_anim_buttons_data, _anim_labels_data,
                               disabled, state, children, opening, chains,
                               opened, center_y>>
           ELSE /\ _anim_buttons_data' = ab
                /\ _anim_labels_data' = al
                /\ center_y' = Opened(center_y)
                /\ disabled' = FALSE
                /\ state' = "open"
                /\ children' = add_widgets(children)
                /\ opening' = opening + 1
                /\ running' = cancelled \cup First(ab) \cup First(al)
                /\ chains' = chains \cup Chain(ab) \cup Chain(al)
                /\ progressed' = CancelLabels(progressed) \ (First(ab) \cup First(al))
                /\ opened' = IF opened = "never" THEN "once" ELSE "again"
                /\ call' = Called("open_stack", <<"on_open">>)
                /\ err' = err
        /\ UNCHANGED <<closing>>

\* open_stack while state is open: close_stack (line 322).
ToggleClosed ==
    /\ state = "open"
    /\ close_stack
    /\ running' = CancelLabels(running)
    /\ progressed' = CancelLabels(progressed)
    /\ call' = Called("open_stack", <<"close_stack", "on_close">>)
    /\ UNCHANGED <<_anim_buttons_data, _anim_labels_data, _window, children,
                   opening, chains, opened, err>>

\* open_stack(self, instance_root_button), lines 279-322: dispatched by the
\* parent's on_release, which on_parent bound it to.
open_stack ==
    /\ err = "none"
    /\ releaseBound
    /\ (OpenTheStack \/ ToggleClosed)
    /\ hints' = {h \in hints : h.w \notin CancelledLabels}
    /\ UNCHANGED <<parent, _widget_declaration_finished, draw_bound,
                   releaseBound, data, ndata, scheduled, _buttons, _labels,
                   _local_positions, _touch_started_inside, touch, touches,
                   auto_dismiss, hovering, stack_button_direction,
                   hint_animation, bound>>

\* open_binding, lines 268-271.
open_binding == bound' = TouchEvents

\* close_binding, lines 273-277.
close_binding == children' = remove_widgets(children) /\ bound' = {}

\* The opening root animations of one open_stack complete (after
\* opening_time): on_complete runs open_binding.
OpenAnimComplete ==
    /\ err = "none"
    /\ opening > 0
    /\ opening' = opening - 1
    /\ open_binding
    /\ call' = Quiet
    /\ UNCHANGED <<parent, _widget_declaration_finished, draw_bound,
                   releaseBound, data, ndata, scheduled, _buttons, _labels,
                   _local_positions, center_y, _anim_buttons_data,
                   _anim_labels_data, _window, _touch_started_inside, touch,
                   touches, state, disabled, auto_dismiss, hovering, hints,
                   stack_button_direction, hint_animation, children, closing,
                   running, chains, progressed, opened, err>>

\* A closing root animation completes (after closing_time + 0.1):
\* on_complete runs close_binding.
CloseAnimComplete ==
    /\ err = "none"
    /\ closing > 0
    /\ closing' = closing - 1
    /\ close_binding
    /\ call' = Quiet
    /\ UNCHANGED <<parent, _widget_declaration_finished, draw_bound,
                   releaseBound, data, ndata, scheduled, _buttons, _labels,
                   _local_positions, center_y, _anim_buttons_data,
                   _anim_labels_data, _window, _touch_started_inside, touch,
                   touches, state, disabled, auto_dismiss, hovering, hints,
                   stack_button_direction, hint_animation, opening, running,
                   chains, progressed, opened, err>>

(* --------------------------- touch handlers --------------------------- *)

\* A touch position that is on no widget of the stack.
Outside == [kind |-> "outside", gen |-> 0, name |-> ""]

\* Where a touch may be: on one widget of the stack, or on none.
Targets == StackWidgets \cup {Outside}

\* widget.collide_point(*touch.pos) for a touch at target.
collide_point(w, target) == w = target

\* Python truth of self._touch_started_inside.
Truthy(flag) == flag = "True"

\* The handlers not modelled in the state: what the last call is recorded as.
Forward(op, yes) == Called(op, IF yes THEN <<"window">> ELSE << >>)

\* What a touch is remembered by while it is down: what its touch-down hit.
Hit(inside) == IF inside THEN "inside" ELSE "outside"

\* The touches a touch-up may end: one that is down, or one that went down
\* before the handlers were bound (or whose touch_down raised).
Lifted == {"inside", "outside", "unrecorded"}

\* touch_down(self, instance_window, touch), lines 244-250.  The list
\* comprehension calls collide_point on every entry of _buttons + _labels;
\* a None label has no such method.
touch_down(target) ==
    LET all == _buttons \o _labels
        inside == \E i \in 1..Len(all) : collide_point(all[i], target)
        flag == IF inside THEN "True" ELSE "False"
    IN  /\ err = "none"
        /\ "on_touch_down" \in bound
        /\ touch' = target
        /\ IF \E i \in 1..Len(all) : all[i] = None
           THEN /\ err' = "AttributeError"
                /\ call' = Called("touch_down", << >>)
                /\ UNCHANGED <<_touch_started_inside, touches>>
           ELSE /\ _touch_started_inside' = flag
                /\ touches' = touches \cup {Hit(inside)}
                /\ call' = Forward("touch_down", ~auto_dismiss \/ Truthy(flag))
                /\ UNCHANGED err
        /\ UNCHANGED <<parent, _widget_declaration_finished, draw_bound,
                       releaseBound, data, ndata, scheduled, _buttons,
                       _labels, _local_positions, center_y,
                       _anim_buttons_data, _anim_labels_data, _window, state,
                       disabled, auto_dismiss, hovering, hints,
                       stack_button_direction, hint_animation, children,
                       bound, opening, closing, running, chains, progressed,
                       opened>>

\* touch_move(self, instance_window, touch), lines 252-256.
touch_move ==
    /\ err = "none"
    /\ "on_touch_move" \in bound
    /\ call' = Forward("touch_move",
                       ~auto_dismiss \/ Truthy(_touch_started_inside))
    /\ UNCHANGED <<parent, _widget_declaration_finished, draw_bound,
                   releaseBound, data, ndata, scheduled, _buttons, _labels,
                   _local_positions, center_y, _anim_buttons_data,
                   _anim_labels_data, _window, _touch_started_inside, touch,
                   touches, state, disabled, auto_dismiss, hovering, hints,
                   stack_button_direction, hint_animation, children, bound,
                   opening, closing, running, chains, progressed, opened, err>>

\* A test that takes a flag of None or True for False.
DismissesAlways == auto_dismiss

\* The test of line 261: dismissal is enabled and the flag is False, not None.
Dismisses == auto_dismiss /\ _touch_started_inside = "False"

\* touch_up(self, instance_window, touch), lines 258-266, for the touch
\* lifted.
touch_up(lifted) ==
    /\ err = "none"
    /\ "on_touch_up" \in bound
    /\ lifted \in touches \cup {"unrecorded"}
    /\ touches' = touches \ {lifted}
    /\ IF Dismisses
       THEN /\ close_stack
            /\ call' = Called("touch_up", <<"close_stack", "on_close">>)
       ELSE /\ call' = Forward("touch_up", TRUE)
            /\ UNCHANGED <<closing, disabled, state, center_y>>
    /\ _touch_started_inside' = "None"
    /\ touch' = NoTouch
    /\ UNCHANGED <<parent, _widget_declaration_finished, draw_bound,
                   releaseBound, data, ndata, scheduled, _buttons, _labels,
                   _local_positions, _anim_buttons_data, _anim_labels_data,
                   _window, auto_dismiss, hovering, hints,
                   stack_button_direction, hint_animation, children, bound,
                   opening, running, chains, progressed, opened, err>>

(* ----------------------------- properties ----------------------------- *)

\* self.auto_dismiss = b (line 60: no handler).
SetAutoDismiss(b) ==
    /\ err = "none"
    /\ b # auto_dismiss
    /\ auto_dismiss' = b
    /\ call' = Quiet
    /\ UNCHANGED <<parent, _widget_declaration_finished, draw_bound,
                   releaseBound, data, ndata, scheduled, _buttons, _labels,
                   _local_positions, center_y, _anim_buttons_data,
                   _anim_labels_data, _window, _touch_started_inside, touch,
                   touches, state, disabled, hovering, hints,
                   stack_button_direction, hint_animation, children, bound,
                   opening, closing, running, chains, progressed, opened, err>>

\* self.hint_animation = b; on_hint_animation (lines 444-447) only sets the
\* labels' background colour.
SetHintAnimation(b) ==
    /\ err = "none"
    /\ b # hint_animation
    /\ hint_animation' = b
    /\ call' = Quiet
    /\ UNCHANGED <<parent, _widget_declaration_finished, draw_bound,
                   releaseBound, data, ndata, scheduled, _buttons, _labels,
                   _local_positions, center_y, _anim_buttons_data,
                   _anim_labels_data, _window, _touch_started_inside, touch,
                   touches, state, disabled, auto_dismiss, hovering, hints,
                   stack_button_direction, children, bound, opening, closing,
                   running, chains, progressed, opened, err>>

\* self.stack_button_direction = d; on_stack_button_direction (lines
\* 431-434) calls set_pos_bottom_buttons for every button.
SetDirection(d) ==
    /\ err = "none"
    /\ d # stack_button_direction
    /\ stack_button_direction' = d
    /\ IF parent = "none" /\ _buttons # << >>
       THEN err' = "AttributeError" /\ UNCHANGED center_y
       ELSE /\ err' = err
            /\ center_y' = [w \in DOMAIN center_y |->
                               IF IsButton(w) THEN Repositioned(center_y)[w]
                               ELSE center_y[w]]
    /\ call' = Quiet
    /\ UNCHANGED <<parent, _widget_declaration_finished, draw_bound,
                   releaseBound, data, ndata, scheduled, _buttons, _labels,
                   _local_positions, _anim_buttons_data, _anim_labels_data,
                   _window, _touch_started_inside, touch, touches, state,
                   disabled, auto_dismiss, hovering, hints, hint_animation,
                   children, bound, opening, closing, running, chains,
                   progressed, opened>>

(* --------------------------- repositioning ---------------------------- *)

\* _update_pos_buttons, lines 405-411: set_pos_bottom_buttons for every
\* button (it reads self.parent.center_y, line 239), then set_pos_labels for
\* every label; the first of these unbinds on_draw if
\* _widget_declaration_finished is set (lines 207-209).
_update_pos_buttons ==
    LET labelled == \E i \in 1..Len(_labels) : IsLabel(_labels[i])
    IN  /\ IF parent = "none" /\ _buttons # << >>
           THEN /\ err' = "AttributeError"
                /\ UNCHANGED <<center_y, draw_bound,
                               _widget_declaration_finished>>
           ELSE /\ err' = err
                /\ center_y' = Repositioned(center_y)
                /\ draw_bound' = (draw_bound /\
                                    ~(labelled /\ _widget_declaration_finished))
                /\ _widget_declaration_finished' =
                       (_widget_declaration_finished /\ ~labelled)
        /\ UNCHANGED <<parent, releaseBound, data, ndata, scheduled, _buttons,
                       _labels, _local_positions, _anim_buttons_data,
                       _anim_labels_data, _window, _touch_started_inside,
                       touch, touches, state, disabled, auto_dismiss,
                       hovering, hints, stack_button_direction,
                       hint_animation, children, bound, opening, closing,
                       running, chains, progressed, opened>>

\* The window is resized, maximized or restored: the handlers bound in
\* __init__ (lines 88-90).
on_resize ==
    /\ err = "none"
    /\ _update_pos_buttons
    /\ call' = Called("on_resize", <<"_update_pos_buttons">>)

\* The window is drawn while on_draw is bound to _update_pos_buttons.
on_draw ==
    /\ err = "none"
    /\ draw_bound
    /\ _update_pos_buttons
    /\ call' = Called("on_draw", <<"_update_pos_buttons">>)

(* ----------------------- the opening animations ----------------------- *)

\* The chains whose on_progress is bound to w's animation: those that
\* started it (line 344).
ChainsOf(w) == {c \in chains : \E i \in 1..c.pos : c.keys[i] = w}

\* animation_open_stack() of chain c: the next widget of its iterator.
NextOf(c) == c.keys[c.pos + 1]

\* Chain c after next(widgets_list), if its iterator has more to give.
Advanced(c) ==
    IF c.pos + 1 < Len(c.keys) THEN {[c EXCEPT !.pos = c.pos + 1]} ELSE {}

\* A frame of w's running opening animation with progress >= 0.1 (a frame
\* below that calls nothing): on_progress of every chain bound to it starts
\* that chain's next animation (lines 336-347); with progress 1 (done) the
\* animation then completes.
Frame(w, done) ==
    /\ err = "none"
    /\ w \in running
    /\ running' = (running \cup {NextOf(c) : c \in ChainsOf(w)})
                      \ (IF done THEN {w} ELSE {})
    /\ chains' = (chains \ ChainsOf(w)) \cup UNION {Advanced(c) : c \in ChainsOf(w)}
    /\ progressed' = (progressed \cup {w}) \ {NextOf(c) : c \in ChainsOf(w)}
    /\ call' = Quiet
    /\ UNCHANGED <<parent, _widget_declaration_finished, draw_bound,
                   releaseBound, data, ndata, scheduled, _buttons, _labels,
                   _local_positions, center_y, _anim_buttons_data,
                   _anim_labels_data, _window, _touch_started_inside, touch,
                   touches, state, disabled, auto_dismiss, hovering, hints,
                   stack_button_direction, hint_animation, children, bound,
                   opening, closing, opened, err>>

(* ------------------------------- hover -------------------------------- *)

\* The label paired with stack button b: self._labels[self._buttons.index(b)]
\* (lines 95 and 124).
PairedLabel(b) == _labels[Index(_buttons, b)]

\* The condition of lines 94-96 and 123-125 for a hover hint of button b.
Hinting(b) == state = "open" /\ IsLabel(PairedLabel(b)) /\ hint_animation

\* Animation.cancel_all(label) followed by the start of the animations hs.
HintsAfter(label, hs) == {h \in hints : h.w # label} \cup hs

\* on_enter(instance_button), lines 92-118: the mouse cursor comes over stack
\* button b, which is in the window.  same tells whether b's icon is the one
\* self.data holds under the label's text (lines 104-109): it is for a button
\* of the latest mapping, and may or may not be for a button an earlier
\* mapping's build left in the stack under a key the latest mapping has too;
\* a key the latest mapping lacks makes self.data[label.text] raise, after
\* the label's animations were cancelled and the strip animation started.
on_enter(b, same) ==
    /\ err = "none"
    /\ IsButton(b)
    /\ b \in children
    /\ b \in Range(_buttons)
    /\ hovering # b
    /\ b.gen = ndata => same
    /\ hovering' = b
    /\ IF Hinting(b)
       THEN LET label == PairedLabel(b)
                strip == [w |-> b, to |-> "expand"]
                fade == [w |-> label, to |-> IF same THEN "in" ELSE "out"]
            IN  /\ running' = running \ {label}
                /\ progressed' = progressed \ {label}
                /\ IF label.name \in Range(data)
                   THEN /\ hints' = HintsAfter(label, {strip, fade})
                        /\ err' = err
                   ELSE /\ hints' = HintsAfter(label, {strip})
                        /\ err' = "KeyError"
       ELSE UNCHANGED <<running, progressed, hints, err>>
    /\ call' = Called("on_enter", << >>)
    /\ UNCHANGED <<parent, _widget_declaration_finished, draw_bound,
                   releaseBound, data, ndata, scheduled, _buttons, _labels,
                   _local_positions, center_y, _anim_buttons_data,
                   _anim_labels_data, _window, _touch_started_inside, touch,
                   touches, state, disabled, auto_dismiss,
                   stack_button_direction, hint_animation, children, bound,
                   opening, closing, chains, opened>>

\* on_leave(instance_button), lines 120-135: the mouse cursor leaves stack
\* button b.
on_leave(b) ==
    /\ err = "none"
    /\ IsButton(b)
    /\ b \in children
    /\ b \in Range(_buttons)
    /\ hovering = b
    /\ hovering' = None
    /\ IF Hinting(b)
       THEN LET label == PairedLabel(b)
                strip == [w |-> b, to |-> "collapse"]
                fade == [w |-> label, to |-> "out"]
            IN  /\ running' = running \ {label}
                /\ progressed' = progressed \ {label}
                /\ hints' = HintsAfter(label, {strip, fade})
       ELSE UNCHANGED <<running, progressed, hints>>
    /\ call' = Called("on_leave", << >>)
    /\ UNCHANGED <<parent, _widget_declaration_finished, draw_bound,
                   releaseBound, data, ndata, scheduled, _buttons, _labels,
                   _local_positions, center_y, _anim_buttons_data,
                   _anim_labels_data, _window, _touch_started_inside, touch,
                   touches, state, disabled, auto_dismiss,
                   stack_button_direction, hint_animation, children, bound,
                   opening, closing, chains, opened, err>>

\* A hover animation reaches its duration and ends.
HoverAnimComplete(h) ==
    /\ err = "none"
    /\ h \in hints
    /\ hints' = hints \ {h}
    /\ call' = Quiet
    /\ UNCHANGED <<parent, _widget_declaration_finished, draw_bound,
                   releaseBound, data, ndata, scheduled, _buttons, _labels,
                   _local_positions, center_y, _anim_buttons_data,
                   _anim_labels_data, _window, _touch_started_inside, touch,
                   touches, state, disabled, auto_dismiss, hovering,
                   stack_button_direction, hint_animation, children, bound,
                   opening, closing, running, chains, progressed, opened,
                   err>>

(* --------------------------- specification ---------------------------- *)

\* The handlers and callbacks without the frames of the per-widget opening
\* animations.  Those frames change only running and chains, which no other
\* handler reads (open_stack only adds to them and cancels label
\* animations), so leaving them out changes nothing the other variables do.
Next ==
    \/ \E p \in Parents : on_parent(p)
    \/ \E d \in Mappings : SetData(d)
    \/ \E k \in Names : SetItem(k)
    \/ \E k \in Names : DelItem(k)
    \/ Tick
    \/ open_stack
    \/ OpenAnimComplete
    \/ CloseAnimComplete
    \/ \E t \in Targets : touch_down(t)
    \/ touch_move
    \/ \E k \in Lifted : touch_up(k)
    \/ \E b \in BOOLEAN : SetAutoDismiss(b)

Spec == Init /\ [][Next]_vars

\* Opening and closing with the frames of the opening animations and the
\* hint_animation property, without touches, for a widget that is attached
\* to a button or detached from it.
NextAnim ==
    \/ \E p \in {"button", "none"} : on_parent(p)
    \/ \E d \in AnimMappings : SetData(d)
    \/ Tick
    \/ open_stack
    \/ OpenAnimComplete
    \/ CloseAnimComplete
    \/ \E b \in BOOLEAN : SetHintAnimation(b)
    \/ \E w \in running, done \in BOOLEAN : Frame(w, done)

SpecAnim == Init /\ [][NextAnim]_vars

\* Building, opening and closing with the events that reposition the stack
\* and the stack_button_direction property, without touches.
NextPos ==
    \/ \E p \in {"button", "none"} : on_parent(p)
    \/ \E d \in Mappings : SetData(d)
    \/ Tick
    \/ open_stack
    \/ OpenAnimComplete
    \/ CloseAnimComplete
    \/ \E d \in Directions : SetDirection(d)
    \/ on_resize
    \/ on_draw

SpecPos == Init /\ [][NextPos]_vars

\* The handlers and callbacks that hover hints depend on, with the mouse
\* cursor entering and leaving the stack buttons in the window.
NextHover ==
    \/ on_parent("button")
    \/ \E d \in Mappings : SetData(d)
    \/ Tick
    \/ open_stack
    \/ OpenAnimComplete
    \/ CloseAnimComplete
    \/ \E b \in BOOLEAN : SetHintAnimation(b)
    \/ \E b \in children, same \in BOOLEAN : on_enter(b, same)
    \/ \E b \in children : on_leave(b)
    \/ \E h \in hints : HoverAnimComplete(h)

SpecHover == Init /\ [][NextHover]_vars

(* ------------------------------ claims -------------------------------- *)

\* The step is a run of handler op (call names the handler that ran last).
Did(op) == call' # << >> /\ Head(call') = op

\* The touch position t is on a widget of the stack.
OnStack(t) == t \in StackWidgets

\* C1: in every reachable state _buttons, _labels and _local_positions have
\* the same length, entry i of each was built for the same data entry (by
\* the same build, for the same key), and the label at index i is None
\* exactly when that key is empty.
C1_ListsAligned ==
    /\ Len(_buttons) = Len(_labels)
    /\ Len(_labels) = Len(_local_positions)
    /\ \A i \in 1..Len(_buttons) :
          /\ IsButton(_buttons[i])
          /\ (_labels[i] = None) <=> (_buttons[i].name = "")
          /\ _labels[i] # None =>
                /\ IsLabel(_labels[i])
                /\ _labels[i].gen = _buttons[i].gen
                /\ _labels[i].name = _buttons[i].name

\* An open stack of two entries, the first without hint text.
C1_Witness ==
    /\ Len(_buttons) = 2
    /\ _labels[1] = None
    /\ _labels[2] # None
    /\ state = "open"
    /\ bound = TouchEvents

\* C2: the initial state is close, and open_stack is a toggle: called while
\* state is close it sets state to open, disabled to false and fires on_open
\* once and nothing else; called while state is open it runs close_stack,
\* which sets state to close, disabled to true and fires on_close once,
\* without on_open.
C2_OpenStackToggles ==
    /\ state = "close"
    /\ [][Did("open_stack") =>
            /\ state = "close" =>
                  /\ state' = "open"
                  /\ disabled' = FALSE
                  /\ call' = <<"open_stack", "on_open">>
            /\ state = "open" =>
                  /\ state' = "close"
                  /\ disabled' = TRUE
                  /\ call' = <<"open_stack", "close_stack", "on_close">>]_vars

\* open_stack has just closed a stack whose touch handlers were bound.
C2_Witness ==
    /\ call = <<"open_stack", "close_stack", "on_close">>
    /\ state = "close"
    /\ disabled
    /\ bound = TouchEvents

\* C3: touch_down records whether the touch hit a widget of the stack;
\* touch_up calls close_stack exactly when auto_dismiss is enabled and the
\* recorded flag is False, otherwise (flag None or True, or dismissal
\* disabled) it leaves the state alone and forwards the touch to the window;
\* after every touch_up the flag is None.
C3_TouchUpDismisses ==
    [][/\ (Did("touch_down") /\ err' = "none") =>
             _touch_started_inside' = (IF OnStack(touch') THEN "True" ELSE "False")
       /\ Did("touch_up") =>
             /\ _touch_started_inside' = "None"
             /\ IF auto_dismiss /\ _touch_started_inside = "False"
                THEN /\ call' = <<"touch_up", "close_stack", "on_close">>
                     /\ state' = "close"
                ELSE /\ call' = <<"touch_up", "window">>
                     /\ state' = state
                     /\ closing' = closing]_vars

\* A touch that went down outside the stack has been released and has
\* closed the stack.
C3_Witness ==
    /\ call = <<"touch_up", "close_stack", "on_close">>
    /\ state = "close"
    /\ _touch_started_inside = "None"
    /\ _buttons # << >>

\* C4: with auto_dismiss disabled no touch handler calls close_stack or
\* changes state, and every touch phase is forwarded to the window once; with
\* auto_dismiss enabled the same holds for every phase of a touch on a widget
\* of the stack.
C4_TouchesForwarded ==
    [][/\ (Did("touch_down") /\ (~auto_dismiss \/ OnStack(touch'))) =>
             /\ call' = <<"touch_down", "window">>
             /\ err' = "none"
             /\ state' = state
       /\ (Did("touch_move") /\ (~auto_dismiss \/ OnStack(touch))) =>
             /\ call' = <<"touch_move", "window">>
             /\ state' = state
       /\ (Did("touch_up") /\ (~auto_dismiss \/ OnStack(touch))) =>
             /\ call' = <<"touch_up", "window">>
             /\ state' = state]_vars

\* C5: on_parent raises ValueError exactly when the widget is attached to a
\* parent that lacks on_press or on_release, and open_stack is then bound to
\* nothing; for a parent with both nothing is raised and open_stack is bound
\* to its on_release.
C5_ErrorOnlyOnBadAttach ==
    [][/\ (err = "none" /\ err' = "ValueError") =>
             /\ parent' # "none"
             /\ ~(HasAttr(parent', "on_press") /\ HasAttr(parent', "on_release"))
             /\ ~releaseBound'
       /\ (parent' # parent /\ err' = "none") =>
             /\ HasAttr(parent', "on_press") /\ HasAttr(parent', "on_release")
             /\ releaseBound']_vars

\* C6: once every deferred build has run, the stack holds exactly one button
\* (and its label) per entry of the current mapping, in mapping order, all of
\* them built by the build of the last change.
C6_StackMatchesData ==
    (scheduled = << >> /\ err = "none") =>
        /\ Len(_buttons) = Len(data)
        /\ Len(_labels) = Len(data)
        /\ \A i \in 1..Len(data) :
              i <= Len(_buttons) /\ i <= Len(_labels) =>
                  /\ _buttons[i] = NewButton(ndata, data[i])
                  /\ _labels[i] = NewLabel(ndata, data[i])

\* C7: after on_data no widget of a previous stack is a child of the
\* window: every child the widget has put into the window is a button or a
\* label of the current lists.
C7_NoOldWidgetInWindow == children \subseteq StackWidgets

\* on_data has just taken the widgets of an open stack out of the window.
C7_Witness ==
    /\ call # << >>
    /\ Head(call) = "on_data"
    /\ Len(call) > 1
    /\ state = "open"
    /\ children = {}

\* C8: in every state where no completion callback of a root animation is
\* pending, the three touch handlers are bound to the window exactly when
\* state is open.
C8_BoundIffOpen ==
    (opening = 0 /\ closing = 0) =>
        /\ state = "open" => bound = TouchEvents
        /\ state = "close" => bound = {}

\* C9: from the open_stack that opens the stack until its root animation and
\* every per-widget opacity animation it started have completed, the touch
\* handlers are not bound to the window.
C9_BoundAfterOpenSequence ==
    (/\ state = "open"
     /\ opened = "once"
     /\ (opening > 0 \/ running # {} \/ chains # {})) => bound = {}

\* C10: in every state where no completion callback of a root animation is
\* pending, every button and every label of the stack is a child of the
\* window if state is open, and none of them is if state is close.
C10_InWindowIffOpen ==
    (opening = 0 /\ closing = 0) =>
        /\ state = "open" => StackWidgets \subseteq children
        /\ state = "close" => StackWidgets \cap children = {}

\* C17: touch_down completes without error for every stack, one with a None
\* label included, and sets the started-inside flag to true exactly when the
\* touch is on a button or an existing label of the stack.
C17_TouchDownClassifies ==
    [][Did("touch_down") =>
          /\ err' = "none"
          /\ (_touch_started_inside' = "True") <=> OnStack(touch')
          /\ (_touch_started_inside' = "False") <=> ~OnStack(touch')]_vars

\* C18: disabled is true exactly when state is close.
C18_DisabledIffClose == disabled <=> (state = "close")

\* A stack that was closed and is open again.
C18_Witness ==
    /\ state = "open"
    /\ ~disabled
    /\ opened = "again"

\* C19: on_close is fired only when state was open, so that on_open and
\* on_close alternate.
C19_CloseOnlyWhenOpen ==
    [][(\E i \in 1..Len(call') : call'[i] = "on_close") => state = "open"]_vars

\* C20: with several touches down, the touch-up of a touch whose touch-down
\* hit a button or a label of the stack never closes the stack, whatever the
\* handlers did for other touches in between.
C20_InsideTouchNeverDismisses ==
    [][(Did("touch_up") /\ "inside" \in touches /\ "inside" \notin touches') =>
          /\ call' = <<"touch_up", "window">>
          /\ state' = state]_vars

\* C11: whenever an opacity animation of an opening chain is started on a
\* button or a label, that widget is a child of the window (chains of an
\* earlier open that was closed in the meantime included).
C11_StartedInWindow ==
    [][\A w \in running' \ running : w \in children']_vars

\* C12: the opening animations are chained: the animation of the widget at
\* place k+1 of the animated buttons (or labels) is started only after the
\* animation of the widget at place k has reached 10% progress.
C12_StartedAfterPredecessor ==
    [][/\ \A k \in 2..Len(_anim_buttons_data) :
             _anim_buttons_data[k] \in running' \ running =>
                 _anim_buttons_data[k - 1] \in progressed'
       /\ \A k \in 2..Len(_anim_labels_data) :
             _anim_labels_data[k] \in running' \ running =>
                 _anim_labels_data[k - 1] \in progressed']_vars

\* C13: whenever open_stack opens the stack, button i (1-based here) ends the
\* call at the parent's center_y plus d * (30 + 56 * i), its label, if any,
\* at the same center_y, and that offset is stored in _local_positions[i].
C13_OpenOffsets ==
    [][(Did("open_stack") /\ state = "close" /\ state' = "open") =>
          \A i \in 1..Len(_buttons) :
             /\ center_y'[_buttons[i]] = OpenOffset(i)
             /\ IsLabel(_labels[i]) => center_y'[_labels[i]] = OpenOffset(i)
             /\ _local_positions'[i] = OpenOffset(i)]_vars

\* C14: after a call of _update_pos_buttons (resize, maximize, restore or
\* draw) while the stack is open, every button sits at the parent's
\* center_y plus the offset it was given when the stack opened, distinct
\* buttons at distinct positions, and every label at its button's center_y.
C14_RepositionKeepsLayout ==
    [][(/\ Did("on_resize") \/ Did("on_draw")
        /\ state = "open"
        /\ \A i \in 1..Len(_buttons) : center_y[_buttons[i]] = OpenOffset(i)) =>
          /\ \A i \in 1..Len(_buttons) :
                /\ center_y'[_buttons[i]] = OpenOffset(i)
                /\ IsLabel(_labels[i]) =>
                      center_y'[_labels[i]] = center_y'[_buttons[i]]
          /\ \A i, j \in 1..Len(_buttons) :
                i # j => center_y'[_buttons[i]] # center_y'[_buttons[j]]]_vars

\* C15: a draw that calls _update_pos_buttons (the first after a build)
\* unbinds the handler, so that no later draw calls it, whether the mapping
\* has hint texts or not.
C15_DrawOncePerBuild ==
    [][Did("on_draw") => ~draw_bound']_vars

\* Everything but the cursor's position and the record of the last handler.
WidgetState ==
    <<parent, _widget_declaration_finished, draw_bound, releaseBound, data,
      ndata, scheduled, _buttons, _labels, _local_positions, center_y,
      _anim_buttons_data, _anim_labels_data, _window, _touch_started_inside,
      state, disabled, auto_dismiss, hints, stack_button_direction,
      hint_animation, children, bound, opening, closing, running, chains,
      progressed, opened, touch, touches, err>>

\* C16: on_enter and on_leave of a stack button change nothing and start or
\* cancel no animation when state is close, hint_animation is off or the
\* button has no label; otherwise on_enter starts the fade-in of the label
\* at the button's index and on_leave its fade-out, without an error.
C16_HoverHints ==
    [][(Did("on_enter") \/ Did("on_leave")) =>
          LET b == IF Did("on_enter") THEN hovering' ELSE hovering
              to == IF Did("on_enter") THEN "in" ELSE "out"
          IN  IF Hinting(b)
              THEN /\ err' = "none"
                   /\ [w |-> PairedLabel(b), to |-> to] \in hints'
              ELSE UNCHANGED WidgetState]_vars

\* C21: an open_stack that opens the stack while hint_animation is enabled
\* starts no opacity animation on a label, whatever opens, closes and changes
\* of hint_animation came before it since the mapping was last changed.
C21_NoLabelAnimationWithHints ==
    [][(Did("open_stack") /\ state = "close" /\ state' = "open"
          /\ hint_animation) =>
          \A w \in running' : ~IsLabel(w)]_vars

====
